---- MODULE Spec2Model ----
(***************************************************************************)
(* Model of code/logistic_sgd.py: the early-stopping training loop of      *)
(* sgd_optimization_mnist and the contract checks of                       *)
(* LogisticRegression.errors.                                              *)
(*                                                                         *)
(* Floating-point values are modelled as records: Num(v) is a finite       *)
(* number, Inf is float('inf') and NaN is the result of numpy.mean([]).    *)
(* A validation loss Num(v) stands for v misclassified examples out of     *)
(* batch_size * n_valid_batches; the denominator is the same at every      *)
(* check of a run, so comparisons are made on the numerators.  The         *)
(* parameters (W, b) are modelled by the number of updates they received.  *)
(***************************************************************************)
EXTENDS Integers, Sequences, FiniteSets

\* ---------------------------------------------------------------- bounds
MaxEpochs == 4
MidBatches == 1700
MaxErr == 300
ErrSpread == 2
MaxTestErr == 1
MaxNdim == 4

\* ------------------------------------------------------ program constants
batch_size == 500
initial_patience == 5000
patience_increase == 2
improvement_threshold_num == 995
improvement_threshold_den == 1000

y_pred_ndim == 1

\* ------------------------------------------------------------ float model
Num(v) == [k |-> "num", v |-> v]

Inf == [k |-> "inf", v |-> 0]

NaN == [k |-> "nan", v |-> 0]

\* a < b on floats: false when either side is NaN
FloatLess(a, b) ==
    IF a.k = "nan" \/ b.k = "nan" THEN FALSE
    ELSE IF a.k = "inf" THEN FALSE
    ELSE IF b.k = "inf" THEN TRUE
    ELSE a.v < b.v

\* a < b * improvement_threshold on floats (inf * 0.995 = inf)
FloatLessScaled(a, b) ==
    IF a.k = "nan" \/ b.k = "nan" THEN FALSE
    ELSE IF a.k = "inf" THEN FALSE
    ELSE IF b.k = "inf" THEN TRUE
    ELSE a.v * improvement_threshold_den < b.v * improvement_threshold_num

\* numpy.mean of the per-batch error rates; the mean of an empty list is NaN
Mean(total_errors, n_batches) ==
    IF n_batches = 0 THEN NaN ELSE Num(total_errors)

Max(a, b) == IF a >= b THEN a ELSE b

\* ------------------------------------------------------------ input sets
\* sizes of the training split: less than one minibatch, one or two
\* minibatches with a remainder, a long epoch, and an epoch longer than the
\* initial patience
TrainSizes ==
    { batch_size - 1, batch_size + 1, 2 * batch_size,
      MidBatches * batch_size + 1, (initial_patience + 2) * batch_size }

ValidSizes == { batch_size - 1, batch_size + 1, 2 * batch_size }

TestSizes == { batch_size, 2 * batch_size + 1 }

EpochChoices == { 0, 1, 2, MaxEpochs }

\* total number of misclassified validation examples a check may find; the
\* values avoid exact ties v * 1000 = best * 995, where the outcome of the
\* floating-point comparison depends on rounding
ErrChoices == { 0 } \cup ((MaxErr - ErrSpread) .. MaxErr)

TestErrChoices == 0 .. MaxTestErr

\* dtype names, as sequences of characters
DTypes ==
    { << "i", "n", "t", "8" >>, << "i", "n", "t", "1", "6" >>,
      << "i", "n", "t", "3", "2" >>, << "i", "n", "t", "6", "4" >>,
      << "u", "i", "n", "t", "8" >>, << "u", "i", "n", "t", "1", "6" >>,
      << "u", "i", "n", "t", "3", "2" >>, << "u", "i", "n", "t", "6", "4" >>,
      << "f", "l", "o", "a", "t", "3", "2" >>,
      << "f", "l", "o", "a", "t", "6", "4" >>,
      << "c", "o", "m", "p", "l", "e", "x", "6", "4" >>,
      << "c", "o", "m", "p", "l", "e", "x", "1", "2", "8" >> }

\* T.ivector: a vector of int32
ivector == [ndim |-> 1, dtype |-> << "i", "n", "t", "3", "2" >>]

\* str.startswith
StartsWith(s, prefix) ==
    /\ Len(s) >= Len(prefix)
    /\ SubSeq(s, 1, Len(prefix)) = prefix

\* LogisticRegression.errors(y): what the call produces.  The arguments of
\* the TypeError read the name `target`, which is not defined anywhere, so
\* building the exception raises NameError.
errors(ndim, dtype) ==
    IF ndim # y_pred_ndim THEN "NameError"
    ELSE IF StartsWith(dtype, << "i", "n", "t" >>) THEN "mean"
    ELSE "NotImplementedError"

VARIABLES
    y_ndim, y_dtype,             \* rank and dtype of the labels given to errors
    errors_result,               \* outcome of classifier.errors(y)
    n_train, n_valid, n_test,    \* sizes of the three splits
    n_iter,                      \* maximal number of epochs
    n_minibatches,               \* training minibatches per epoch
    pc,                          \* position in sgd_optimization_mnist
    iter,                        \* loop variable, -1 before the first iteration
    minibatch_index, minibatch_offset,
    params,                      \* number of updates applied to (W, b)
    patience, best_validation_loss, test_score,
    this_validation_loss, n_valid_batches, n_test_batches,
    last_check,                  \* outcome of this iteration's validation check
    n_validations, n_test_evals, \* number of validation / test evaluations
    losses_seen,                 \* every validation loss computed so far
    best_at, test_at,            \* value of params when best / test_score were set
    max_train_idx, max_valid_idx, max_test_idx  \* highest example index read

vars == << y_ndim, y_dtype, errors_result, n_train, n_valid, n_test,
           n_iter, n_minibatches, pc, iter,
           minibatch_index, minibatch_offset, params, patience,
           best_validation_loss, test_score, this_validation_loss,
           n_valid_batches, n_test_batches, last_check, n_validations,
           n_test_evals, losses_seen, best_at, test_at,
           max_train_idx, max_valid_idx, max_test_idx >>

inputs == << y_ndim, y_dtype, errors_result, n_train, n_valid, n_test,
            n_iter, n_minibatches >>

\* ------------------------------------------------------ loop's operators
\* faulty variant: the count rounded up, so that the remainder forms a minibatch
NBatches_Ceil(N) == (N + batch_size - 1) \div batch_size

\* number of minibatches of a split of N examples (Python 2 integer division)
NBatches(N) == N \div batch_size

validation_frequency == n_minibatches

\* faulty variant: the check placed at the first minibatch of the epoch
ValidationDue_FirstMinibatch(it, freq) == it % freq = 0

\* (iter+1) % validation_frequency == 0
ValidationDue(it, freq) == (it + 1) % freq = 0

\* faulty variant: a loss equal to the best counts as a new best
IsBetter_OrEqual(this, best) == FloatLess(this, best) \/ this = best

IsBetter(this, best) == FloatLess(this, best)

\* faulty variant: every improvement counts as significant
IsSignificant_AnyImprovement(this, best) == FloatLess(this, best)

IsSignificant(this, best) == FloatLessScaled(this, best)

\* faulty variant: patience replaced instead of raised
NewPatience_NoMax(p, it) == it * patience_increase

\* faulty variant: min in place of max
NewPatience_Min(p, it) ==
    IF p <= it * patience_increase THEN p ELSE it * patience_increase

NewPatience(p, it) == Max(p, it * patience_increase)

\* faulty variant: the loop runs one iteration past patience
ShouldBreak_Late(p, it) == p < it

ShouldBreak(p, it) == p <= it

LoopInit ==
    /\ pc = "build"
    /\ errors_result = "none"
    /\ iter = -1
    /\ minibatch_index = 0
    /\ minibatch_offset = 0
    /\ params = 0
    /\ patience = initial_patience
    /\ best_validation_loss = Inf
    /\ test_score = Num(0)
    /\ this_validation_loss = Num(0)
    /\ n_valid_batches = 0
    /\ n_test_batches = 0
    /\ last_check = "none"
    /\ n_validations = 0
    /\ n_test_evals = 0
    /\ losses_seen = {}
    /\ best_at = -1
    /\ test_at = -1
    /\ max_train_idx = -1
    /\ max_valid_idx = -1
    /\ max_test_idx = -1

Init ==
    /\ y_ndim = ivector.ndim
    /\ y_dtype = ivector.dtype
    /\ n_train \in TrainSizes
    /\ n_valid \in ValidSizes
    /\ n_test \in TestSizes
    /\ n_iter \in EpochChoices
    /\ n_minibatches = NBatches(n_train)
    /\ LoopInit

\* test_model, validate_model and train_model are compiled; building the
\* first two calls classifier.errors(y), and an exception ends the run
Compile ==
    /\ pc = "build"
    /\ errors_result' = errors(y_ndim, y_dtype)
    /\ pc' = IF errors_result' = "mean" THEN "for" ELSE "raised"
    /\ UNCHANGED << y_ndim, y_dtype, n_train, n_valid, n_test, n_iter,
                    n_minibatches, iter, minibatch_index, minibatch_offset,
                    params, patience, best_validation_loss, test_score,
                    this_validation_loss, n_valid_batches, n_test_batches,
                    last_check, n_validations, n_test_evals, losses_seen,
                    best_at, test_at, max_train_idx, max_valid_idx,
                    max_test_idx >>

\* the for statement yields the next iter and the update is applied to the
\* training minibatch it selects
Train ==
    /\ pc = "for"
    /\ iter + 1 < n_iter * n_minibatches
    /\ iter' = iter + 1
    /\ minibatch_index' = iter' % n_minibatches
    /\ minibatch_offset' = minibatch_index' * batch_size
    /\ params' = params + 1
    /\ max_train_idx' = Max(max_train_idx, minibatch_offset' + batch_size - 1)
    /\ last_check' = "none"
    /\ pc' = "if_validate"
    /\ UNCHANGED << inputs, patience, best_validation_loss, test_score,
                    this_validation_loss, n_valid_batches, n_test_batches,
                    n_validations, n_test_evals, losses_seen, best_at,
                    test_at, max_valid_idx, max_test_idx >>

\* the range of the for statement is exhausted
Exhausted ==
    /\ pc = "for"
    /\ ~(iter + 1 < n_iter * n_minibatches)
    /\ pc' = "done"
    /\ UNCHANGED << inputs, iter, minibatch_index, minibatch_offset, params,
                    patience, best_validation_loss, test_score,
                    this_validation_loss, n_valid_batches, n_test_batches,
                    last_check, n_validations, n_test_evals, losses_seen,
                    best_at, test_at, max_train_idx, max_valid_idx,
                    max_test_idx >>

SkipValidation ==
    /\ pc = "if_validate"
    /\ ~ValidationDue(iter, validation_frequency)
    /\ pc' = "if_patience"
    /\ UNCHANGED << inputs, iter, minibatch_index, minibatch_offset, params,
                    patience, best_validation_loss, test_score,
                    this_validation_loss, n_valid_batches, n_test_batches,
                    last_check, n_validations, n_test_evals, losses_seen,
                    best_at, test_at, max_train_idx, max_valid_idx,
                    max_test_idx >>

\* faulty variant: validate_model compiled with the updates of train_model
Validate_Updating ==
    /\ pc = "if_validate"
    /\ ValidationDue(iter, validation_frequency)
    /\ n_valid_batches' = NBatches(n_valid)
    /\ \E e \in ErrChoices :
         this_validation_loss' = Mean(e, n_valid_batches')
    /\ max_valid_idx' = Max(max_valid_idx, n_valid_batches' * batch_size - 1)
    /\ n_validations' = n_validations + 1
    /\ losses_seen' = losses_seen \cup { this_validation_loss' }
    /\ params' = params + n_valid_batches'
    /\ pc' = "compare"
    /\ UNCHANGED << inputs, iter, minibatch_index, minibatch_offset,
                    patience, best_validation_loss, test_score,
                    n_test_batches, last_check, n_test_evals, best_at,
                    test_at, max_train_idx, max_test_idx >>

\* zero-one loss on the validation set
Validate ==
    /\ pc = "if_validate"
    /\ ValidationDue(iter, validation_frequency)
    /\ n_valid_batches' = NBatches(n_valid)
    /\ \E e \in ErrChoices :
         this_validation_loss' = Mean(e, n_valid_batches')
    /\ max_valid_idx' = Max(max_valid_idx, n_valid_batches' * batch_size - 1)
    /\ n_validations' = n_validations + 1
    /\ losses_seen' = losses_seen \cup { this_validation_loss' }
    /\ pc' = "compare"
    /\ UNCHANGED << inputs, iter, minibatch_index, minibatch_offset, params,
                    patience, best_validation_loss, test_score,
                    n_test_batches, last_check, n_test_evals, best_at,
                    test_at, max_train_idx, max_test_idx >>

\* faulty variant: the test set evaluated only after a significant improvement
Improve_TestOnSignificant ==
    /\ pc = "compare"
    /\ IsBetter(this_validation_loss, best_validation_loss)
    /\ best_validation_loss' = this_validation_loss
    /\ best_at' = params
    /\ IF IsSignificant(this_validation_loss, best_validation_loss)
       THEN /\ patience' = NewPatience(patience, iter)
            /\ last_check' = "significant"
            /\ n_test_batches' = NBatches(n_test)
            /\ \E t \in TestErrChoices :
                 test_score' = Mean(t, n_test_batches')
            /\ max_test_idx' =
                 Max(max_test_idx, n_test_batches' * batch_size - 1)
            /\ n_test_evals' = n_test_evals + 1
            /\ test_at' = params
       ELSE /\ patience' = patience
            /\ last_check' = "improved"
            /\ UNCHANGED << n_test_batches, test_score, max_test_idx,
                            n_test_evals, test_at >>
    /\ pc' = "if_patience"
    /\ UNCHANGED << inputs, iter, minibatch_index, minibatch_offset, params,
                    this_validation_loss, n_valid_batches, n_validations,
                    losses_seen, max_train_idx, max_valid_idx >>

\* a new best validation score: patience, best loss and test score
Improve ==
    /\ pc = "compare"
    /\ IsBetter(this_validation_loss, best_validation_loss)
    /\ IF IsSignificant(this_validation_loss, best_validation_loss)
       THEN /\ patience' = NewPatience(patience, iter)
            /\ last_check' = "significant"
       ELSE /\ patience' = patience
            /\ last_check' = "improved"
    /\ best_validation_loss' = this_validation_loss
    /\ best_at' = params
    /\ n_test_batches' = NBatches(n_test)
    /\ \E t \in TestErrChoices : test_score' = Mean(t, n_test_batches')
    /\ max_test_idx' = Max(max_test_idx, n_test_batches' * batch_size - 1)
    /\ n_test_evals' = n_test_evals + 1
    /\ test_at' = params
    /\ pc' = "if_patience"
    /\ UNCHANGED << inputs, iter, minibatch_index, minibatch_offset, params,
                    this_validation_loss, n_valid_batches, n_validations,
                    losses_seen, max_train_idx, max_valid_idx >>

NoImprove ==
    /\ pc = "compare"
    /\ ~IsBetter(this_validation_loss, best_validation_loss)
    /\ last_check' = "no_improvement"
    /\ pc' = "if_patience"
    /\ UNCHANGED << inputs, iter, minibatch_index, minibatch_offset, params,
                    patience, best_validation_loss, test_score,
                    this_validation_loss, n_valid_batches, n_test_batches,
                    n_validations, n_test_evals, losses_seen, best_at,
                    test_at, max_train_idx, max_valid_idx, max_test_idx >>

Break ==
    /\ pc = "if_patience"
    /\ ShouldBreak(patience, iter)
    /\ pc' = "done"
    /\ UNCHANGED << inputs, iter, minibatch_index, minibatch_offset, params,
                    patience, best_validation_loss, test_score,
                    this_validation_loss, n_valid_batches, n_test_batches,
                    last_check, n_validations, n_test_evals, losses_seen,
                    best_at, test_at, max_train_idx, max_valid_idx,
                    max_test_idx >>

Continue ==
    /\ pc = "if_patience"
    /\ ~ShouldBreak(patience, iter)
    /\ pc' = "for"
    /\ UNCHANGED << inputs, iter, minibatch_index, minibatch_offset, params,
                    patience, best_validation_loss, test_score,
                    this_validation_loss, n_valid_batches, n_test_batches,
                    last_check, n_validations, n_test_evals, losses_seen,
                    best_at, test_at, max_train_idx, max_valid_idx,
                    max_test_idx >>

Next ==
    \/ Compile
    \/ Train
    \/ Exhausted
    \/ SkipValidation
    \/ Validate
    \/ Improve
    \/ NoImprove
    \/ Break
    \/ Continue

Spec == Init /\ [][Next]_vars

\* runs of the training loop for termination: every training size and
\* epoch count, a validation split with and without a full minibatch
InitLive ==
    /\ y_ndim = ivector.ndim
    /\ y_dtype = ivector.dtype
    /\ n_train \in TrainSizes
    /\ n_valid \in { batch_size - 1, batch_size + 1 }
    /\ n_test = batch_size
    /\ n_iter \in EpochChoices
    /\ n_minibatches = NBatches(n_train)
    /\ LoopInit

\* the training loop never stalls: the program is a single sequential thread
LiveSpec == InitLive /\ [][Next]_vars /\ WF_vars(Next)

\* LogisticRegression.errors applied to labels of any rank and dtype
InitErrors ==
    /\ y_ndim \in 0 .. MaxNdim
    /\ y_dtype \in DTypes
    /\ n_train = batch_size
    /\ n_valid = batch_size
    /\ n_test = batch_size
    /\ n_iter = 0
    /\ n_minibatches = NBatches(n_train)
    /\ LoopInit

NextErrors == Compile

ErrorsSpec == InitErrors /\ [][NextErrors]_vars

\* ============================================================== properties
\* comparisons of losses as the claims state them
LossLess(a, b) ==
    /\ a.k = "num"
    /\ \/ b.k = "inf"
       \/ b.k = "num" /\ a.v < b.v

LossSignificant(a, b) ==
    /\ a.k = "num"
    /\ \/ b.k = "inf"
       \/ b.k = "num" /\ 1000 * a.v < 995 * b.v

LoopRan == n_minibatches >= 1 /\ n_iter >= 1

TotalIters == n_iter * n_minibatches

\* the validation check of the current iteration has just been decided
CheckStep == pc = "compare" /\ pc' = "if_patience"

\* q = floor(N / batch_size), stated without division
IsFloorOf(q, N) == q * batch_size <= N /\ N < (q + 1) * batch_size

\* C1: patience never decreases from one step of the training loop to the
\* next, and so never falls below its initial value 5000.
C1_PatienceMonotone ==
    [][patience' >= patience /\ patience' >= 5000]_vars

C1_Witness == pc = "if_patience" /\ patience > 5000

\* C2: with n_minibatches >= 1 and max_epochs >= 1 the loop always reaches
\* STOPPED; it stops at the first iteration iter with iter >= patience
\* (patience as left by that iteration's validation step) or
\* iter = max_epochs * n_minibatches - 1, and no update follows it.
C2_StopsAtFirstStopIteration ==
    /\ [](LoopRan =>
            /\ pc = "done" =>
                 /\ iter >= patience \/ iter = TotalIters - 1
                 /\ params = iter + 1
            /\ pc = "if_validate" /\ iter > 0 =>
                 /\ iter - 1 < patience
                 /\ iter - 1 < TotalIters - 1
            /\ pc = "for" =>
                 ~(iter >= patience))
    /\ (LoopRan ~> pc = "done")

C2_Witness ==
    /\ pc = "done"
    /\ LoopRan
    /\ iter >= patience
    /\ iter < TotalIters - 1

\* C3: when no validation check after iteration k improves on the best loss,
\* the loop ends at an iteration j with k <= j and j - k <= patience, and it
\* never stops on the patience condition at an iteration whose validation
\* check found a significant improvement.
C3_EarlyStoppingBound ==
    pc = "done" /\ iter >= 0 =>
        /\ LET k == IF best_at > 0 THEN best_at - 1 ELSE 0
           IN  \A kk \in { k, iter } : kk <= iter /\ iter - kk <= patience
        /\ patience <= iter => last_check # "significant"

C3_Witness ==
    /\ pc = "done"
    /\ best_at > 0
    /\ patience <= iter
    /\ patience > 5000
    /\ iter > best_at

\* C4: a validation check is performed at iteration iter exactly when
\* (iter+1) % n_minibatches = 0, that is once per epoch, right after the
\* update on the last training minibatch of the epoch.
C4_ValidationOncePerEpoch ==
    /\ pc = "compare" =>
         /\ (iter + 1) % n_minibatches = 0
         /\ minibatch_index = n_minibatches - 1
         /\ params = iter + 1
    /\ pc = "if_patience" =>
         /\ (last_check # "none") <=> ((iter + 1) % n_minibatches = 0)
         /\ n_validations * n_minibatches <= iter + 1
         /\ iter + 1 < (n_validations + 1) * n_minibatches

C4_Witness == pc = "compare" /\ n_validations >= 2 /\ n_minibatches >= 2

\* C5: every split of N examples has floor(N / batch_size) minibatches; a
\* validation split of 501 examples has exactly 1; no example at index
\* floor(N / batch_size) * batch_size or above is read.
C5_FloorBatching ==
    /\ IsFloorOf(n_minibatches, n_train)
    /\ max_train_idx < n_minibatches * batch_size
    /\ n_validations > 0 =>
         /\ IsFloorOf(n_valid_batches, n_valid)
         /\ max_valid_idx < n_valid_batches * batch_size
         /\ n_valid = 501 => n_valid_batches = 1 /\ max_valid_idx = 499
    /\ n_test_evals > 0 =>
         /\ IsFloorOf(n_test_batches, n_test)
         /\ max_test_idx < n_test_batches * batch_size
    /\ n_validations = 0 => max_valid_idx = -1
    /\ n_test_evals = 0 => max_test_idx = -1

C5_Witness ==
    /\ n_valid = 501
    /\ n_validations > 0
    /\ n_test_evals > 0
    /\ n_train % batch_size # 0
    /\ n_test % batch_size # 0
    /\ max_train_idx > batch_size

\* C6: errors(y) raises TypeError whenever the rank of y differs from the
\* rank of the predictions, raises NotImplementedError whenever the rank
\* matches and y is not integer-typed, and returns the mean mismatch rate
\* only when the rank matches and the dtype is an integer one.
IntegerDTypes == { d \in DTypes : d[1] = "i" \/ (d[1] = "u" /\ d[2] = "i") }

C6_ErrorsContract ==
    errors_result # "none" =>
        /\ y_ndim # 1 => errors_result = "TypeError"
        /\ y_ndim = 1 /\ y_dtype \notin IntegerDTypes =>
             errors_result = "NotImplementedError"
        /\ errors_result = "mean" => y_ndim = 1 /\ y_dtype \in IntegerDTypes

\* the rule for patience at a validation check, common to C7 as stated and
\* as amended
PatienceRule ==
    /\ patience' # patience =>
         /\ CheckStep
         /\ LossSignificant(this_validation_loss, best_validation_loss)
         /\ LossLess(this_validation_loss, best_validation_loss)
         /\ patience' = Max(patience, iter * 2)
    /\ CheckStep
         /\ LossSignificant(this_validation_loss, best_validation_loss) =>
         /\ patience' = Max(patience, iter * 2)
         /\ last_check' = "significant"
    /\ CheckStep
         /\ LossLess(this_validation_loss, best_validation_loss)
         /\ ~LossSignificant(this_validation_loss, best_validation_loss) =>
         /\ best_validation_loss' = this_validation_loss
         /\ n_test_evals' = n_test_evals + 1
         /\ test_at' = params
         /\ patience' = patience
         /\ last_check' = "improved"

\* C7 (as stated): patience changes only on a loss below 0.995 times the
\* best, to max(patience, iter * 2); a smaller improvement updates the best
\* loss and the test score and leaves patience alone; the first validation
\* check of a run always counts as significant.
C7_Original ==
    [][/\ PatienceRule
       /\ CheckStep /\ n_validations = 1 => last_check' = "significant"]_vars

\* C7 (amended): as above, but the first validation check counts as
\* significant when the validation split holds at least one full minibatch;
\* with none, its loss is NaN and it counts as no improvement.
C7_SignificantRule ==
    [][/\ PatienceRule
       /\ CheckStep /\ n_validations = 1 =>
            IF n_valid >= batch_size
            THEN last_check' = "significant"
            ELSE last_check' = "no_improvement"]_vars

C7_Witness ==
    /\ pc = "if_patience"
    /\ last_check = "improved"
    /\ iter * 2 > patience
    /\ n_validations >= 2

\* the part of C8 about what a check may change, common to C8 as stated and
\* as amended
BestStep ==
    /\ best_validation_loss' = best_validation_loss
         \/ LossLess(best_validation_loss', best_validation_loss)
    /\ best_validation_loss' # best_validation_loss =>
         /\ CheckStep
         /\ LossLess(this_validation_loss, best_validation_loss)
         /\ best_validation_loss' = this_validation_loss
    /\ CheckStep
         /\ ~LossLess(this_validation_loss, best_validation_loss) =>
         /\ best_validation_loss' = best_validation_loss
         /\ test_score' = test_score
         /\ n_test_evals' = n_test_evals
         /\ patience' = patience

\* C8 (as stated): between validation checks (a check that has computed its
\* loss and not yet compared it is under way, not a state of the loop)
\* best_validation_loss is the minimum of all validation losses computed so
\* far, +infinity before the first check; it never
\* increases and a check whose loss is not strictly smaller leaves the best
\* loss, the test score and patience unchanged.
C8_Original ==
    /\ [](pc # "compare" =>
            IF n_validations = 0
            THEN best_validation_loss = Inf
            ELSE /\ best_validation_loss \in losses_seen
                 /\ \A l \in losses_seen :
                        ~LossLess(l, best_validation_loss))
    /\ [][BestStep]_vars

\* C8 (amended): best_validation_loss is the minimum of the validation
\* losses computed so far that are numbers, +infinity when there is none
\* (before the first check, or when every loss is NaN); the rest as stated.
C8_BestIsMinimum ==
    /\ [](pc # "compare" =>
            LET nums == { l \in losses_seen : l.k = "num" }
            IN  IF nums = {}
                THEN best_validation_loss = Inf
                ELSE /\ best_validation_loss \in nums
                     /\ \A l \in nums : best_validation_loss.v <= l.v)
    /\ [][BestStep]_vars

C8_Witness ==
    /\ pc = "if_patience"
    /\ last_check = "no_improvement"
    /\ this_validation_loss = best_validation_loss
    /\ Cardinality(losses_seen) >= 2

\* C9: test_score is evaluated at exactly the checks that strictly lower
\* best_validation_loss, on the parameters of that iteration, so the best
\* loss and the test score always come from the same parameter values; while
\* no check has improved, test_score is its initial 0.
C9_TestScoreOfBest ==
    /\ [](IF best_validation_loss = Inf
          THEN test_score = Num(0) /\ n_test_evals = 0 /\ test_at = -1
          ELSE test_at = best_at /\ n_test_evals >= 1)
    /\ [][/\ (n_test_evals' # n_test_evals \/ test_at' # test_at
                \/ test_score' # test_score) =>
                /\ LossLess(best_validation_loss', best_validation_loss)
                /\ test_at' = iter + 1
          /\ LossLess(best_validation_loss', best_validation_loss) =>
                /\ n_test_evals' = n_test_evals + 1
                /\ test_at' = iter + 1
                /\ best_at' = iter + 1]_vars

C9_Witness ==
    /\ pc = "done"
    /\ n_test_evals >= 2
    /\ test_at = best_at
    /\ n_validations > n_test_evals

\* C10: W and b change only by the update of train_model, once per loop
\* iteration and on the training slice at offset
\* (iter % n_minibatches) * batch_size; validation and test evaluations
\* leave them unchanged, so i completed iterations mean i updates.
C10_OneUpdatePerIteration ==
    /\ [](params = iter + 1)
    /\ [][params' # params =>
            /\ pc = "for" /\ pc' = "if_validate"
            /\ iter' = iter + 1
            /\ params' = params + 1
            /\ minibatch_offset' = (iter' % n_minibatches) * batch_size]_vars

C10_Witness ==
    /\ pc = "if_patience"
    /\ n_test_evals >= 2
    /\ params >= 2
    /\ minibatch_offset > 0
====
